---- MODULE Spec2Model ----
(***************************************************************************)
(* Express Entry helper (express_entry.py, language_utils.py,              *)
(* conversion_tables.py): the language conversion tables, the FSW and CRS  *)
(* scorers and the actionable-delta functions, with render() as the        *)
(* pipeline that calls them on the module-level configuration.  The        *)
(* scenario provider (config.py) and the MBA eligibility check             *)
(* (ucalgary_mba.py) follow the pipeline.                                  *)
(*                                                                         *)
(* IELTS band scores are kept in half-band units (8.5 is 17) and grade     *)
(* point averages in hundredths (3.07 is 307); every other number is the   *)
(* source's own.  Python's None is the string "None"; an int that may be   *)
(* None is <<n>> or <<>>.                                                  *)
(***************************************************************************)
EXTENDS Integers, Sequences, FiniteSets, TLC

VARIABLES
    cfg,                    \* module-level configuration (AGE, EDUCATION, IELTS, ...)
    pc,                     \* position in render(): convert, fsw, crs, actions, done
    english_clb_reference,  \* render(): ielts_to_clb(IELTS)
    french_clb_reference,   \* render(): tcf_to_nclc(TCF)
    english_clb,            \* render(): the level set used for scoring
    french_clb,
    fsw,                    \* result of fsw_eligibility
    crs,                    \* result of compute_crs
    actions,                \* the six actionable deltas
    call,                   \* arguments of a direct call: of compute_crs and the deltas, or of _apply
    returned,               \* what the direct calls returned (or raised)
    config,                 \* namespace of config.py: defined names and their values
    mba                     \* result of ucalgary_mba.evaluate

vars == <<cfg, pc, english_clb_reference, french_clb_reference,
          english_clb, french_clb, fsw, crs, actions, call, returned, config, mba>>

None == "None"

\* Key order of the conversion tables' dicts (insertion order).
SkillOrder == <<"listening", "reading", "writing", "speaking">>

Skills == {SkillOrder[i] : i \in 1..Len(SkillOrder)}

(***************************************************************************)
(* Language conversion tables                                              *)
(***************************************************************************)
IELTS_CLB_TABLE ==
    [listening |-> <<<<17, 10>>, <<16, 9>>, <<15, 8>>, <<12, 7>>, <<11, 6>>, <<10, 5>>, <<9, 4>>>>,
     reading   |-> <<<<16, 10>>, <<14, 9>>, <<13, 8>>, <<12, 7>>, <<10, 6>>, <<8, 5>>, <<7, 4>>>>,
     writing   |-> <<<<15, 10>>, <<14, 9>>, <<13, 8>>, <<12, 7>>, <<11, 6>>, <<10, 5>>, <<8, 4>>>>,
     speaking  |-> <<<<15, 10>>, <<14, 9>>, <<13, 8>>, <<12, 7>>, <<11, 6>>, <<10, 5>>, <<8, 4>>>>]

TCF_NCLC_TABLE ==
    [listening |-> <<<<549, 10>>, <<523, 9>>, <<503, 8>>, <<458, 7>>, <<398, 6>>, <<369, 5>>, <<331, 4>>>>,
     reading   |-> <<<<549, 10>>, <<524, 9>>, <<499, 8>>, <<453, 7>>, <<406, 6>>, <<375, 5>>, <<342, 4>>>>,
     writing   |-> <<<<16, 10>>, <<14, 9>>, <<12, 8>>, <<10, 7>>, <<9, 6>>, <<7, 5>>, <<6, 4>>>>,
     speaking  |-> <<<<16, 10>>, <<14, 9>>, <<12, 8>>, <<10, 7>>, <<9, 6>>, <<7, 5>>, <<6, 4>>>>]

FRENCH_THRESHOLDS == <<5, 7, 9>>

(***************************************************************************)
(* Language helpers                                                        *)
(***************************************************************************)
RECURSIVE ScanTable(_, _, _)
\* The for loop of _convert_with_table from entry i on.
ScanTable(score, table, i) ==
    IF i > Len(table) THEN 0
    ELSE IF score >= table[i][1] THEN table[i][2]
    ELSE ScanTable(score, table, i + 1)

RECURSIVE ScanTableStrict(_, _, _)
ScanTableStrict(score, table, i) ==
    IF i > Len(table) THEN 0
    ELSE IF score > table[i][1] THEN table[i][2]
    ELSE ScanTableStrict(score, table, i + 1)

\* Mutant: a score must exceed the threshold.
_convert_with_table_Strict(score, table) == ScanTableStrict(score, table, 1)

_convert_with_table(score, table) == ScanTable(score, table, 1)

\* scores.get(skill, 0.0)
ScoreGet(scores, skill) == IF skill \in DOMAIN scores THEN scores[skill] ELSE 0

zero_clb(table) == [skill \in DOMAIN table |-> 0]

ielts_to_clb(scores) ==
    [skill \in DOMAIN IELTS_CLB_TABLE |->
        _convert_with_table(ScoreGet(scores, skill), IELTS_CLB_TABLE[skill])]

tcf_to_nclc(scores) ==
    [skill \in DOMAIN TCF_NCLC_TABLE |->
        _convert_with_table(ScoreGet(scores, skill), TCF_NCLC_TABLE[skill])]

\* min(clb.values())
MinValue(clb) == CHOOSE m \in {clb[s] : s \in DOMAIN clb} : \A s \in DOMAIN clb : m <= clb[s]

RECURSIVE SumSeq(_)
SumSeq(seq) == IF seq = <<>> THEN 0 ELSE Head(seq) + SumSeq(Tail(seq))

\* clb.values() in dict order
Values(clb) == [i \in 1..Len(SkillOrder) |-> clb[SkillOrder[i]]]

\* [skill for skill, level in clb.items() if level < bound]
SkillsBelow(clb, bound) == SelectSeq(SkillOrder, LAMBDA s : clb[s] < bound)

(***************************************************************************)
(* Constants and lookups                                                   *)
(***************************************************************************)
EDUCATION_ORDER ==
    <<"less_than_secondary", "secondary", "one_year_post_secondary",
      "two_year_post_secondary", "bachelor", "two_or_more", "masters",
      "professional_degree", "phd">>

EDUCATION_LEVELS ==
    {"less_than_secondary", "secondary", "one_year_post_secondary",
     "two_year_post_secondary", "bachelor", "two_or_more", "masters",
     "professional_degree", "phd"}

FSW_AGE_POINTS ==
    [age \in 18..35 |-> 12] @@
    (36 :> 11) @@ (37 :> 10) @@ (38 :> 9) @@ (39 :> 8) @@ (40 :> 7) @@ (41 :> 6) @@
    (42 :> 5) @@ (43 :> 4) @@ (44 :> 3) @@ (45 :> 2) @@ (46 :> 1) @@ (47 :> 0)

\* Mutant: two_or_more above masters.
FSW_EDU_POINTS_TwoOrMore24 ==
    [phd |-> 25, masters |-> 23, professional_degree |-> 23, two_or_more |-> 24,
     bachelor |-> 21, two_year_post_secondary |-> 19, one_year_post_secondary |-> 15,
     secondary |-> 5, less_than_secondary |-> 0]

FSW_EDU_POINTS ==
    [phd |-> 25, masters |-> 23, professional_degree |-> 23, two_or_more |-> 22,
     bachelor |-> 21, two_year_post_secondary |-> 19, one_year_post_secondary |-> 15,
     secondary |-> 5, less_than_secondary |-> 0]

FSW_WORK_POINTS ==
    (0 :> 0) @@ (1 :> 9) @@ (2 :> 11) @@ (3 :> 11) @@ (4 :> 13) @@ (5 :> 13) @@ (6 :> 15)

CRS_AGE_POINTS ==
    (17 :> 0) @@ (18 :> 99) @@ (19 :> 105) @@ [age \in 20..29 |-> 110] @@
    (30 :> 105) @@ (31 :> 99) @@ (32 :> 94) @@ (33 :> 88) @@ (34 :> 83) @@ (35 :> 77) @@
    (36 :> 72) @@ (37 :> 66) @@ (38 :> 61) @@ (39 :> 55) @@ (40 :> 50) @@ (41 :> 39) @@
    (42 :> 28) @@ (43 :> 17) @@ (44 :> 6) @@ (45 :> 0) @@ (46 :> 0) @@ (47 :> 0)

CRS_EDU_POINTS ==
    [less_than_secondary |-> 0, secondary |-> 30, one_year_post_secondary |-> 90,
     two_year_post_secondary |-> 98, bachelor |-> 120, two_or_more |-> 128,
     masters |-> 135, professional_degree |-> 135, phd |-> 150]

\* A raised ValueError, as the value of the call that raised it.
Raised(msg) == [raised |-> TRUE, error |-> msg]

(***************************************************************************)
(* FSW eligibility                                                         *)
(***************************************************************************)
\* Mutant: a missing age falls back to the full 12 points.
fsw_age_Default12(age) == IF age \in DOMAIN FSW_AGE_POINTS THEN FSW_AGE_POINTS[age] ELSE 12

fsw_age(age) == IF age \in DOMAIN FSW_AGE_POINTS THEN FSW_AGE_POINTS[age] ELSE 0

fsw_education(level) ==
    IF level \notin EDUCATION_LEVELS THEN Raised("Invalid education level")
    ELSE IF level \in DOMAIN FSW_EDU_POINTS THEN FSW_EDU_POINTS[level] ELSE 0

\* Mutant: level 8 scored as level 9.
FswPrimarySkillPoints_From8(level) ==
    IF level >= 8 THEN 6
    ELSE IF level = 7 THEN 4
    ELSE 0

FswPrimarySkillPoints(level) ==
    IF level >= 9 THEN 6
    ELSE IF level = 8 THEN 5
    ELSE IF level = 7 THEN 4
    ELSE 0

Min2(a, b) == IF a <= b THEN a ELSE b

Max2(a, b) == IF a >= b THEN a ELSE b

fsw_language_primary(clb) ==
    LET levels == Values(clb)
        points == SumSeq([i \in 1..Len(levels) |-> FswPrimarySkillPoints(levels[i])])
    IN  Min2(points, 24)

fsw_language_secondary(clb) ==
    LET levels == Values(clb)
        points == SumSeq([i \in 1..Len(levels) |-> IF levels[i] >= 5 THEN 1 ELSE 0])
    IN  Min2(points, 4)

fsw_work_experience(years) ==
    IF years <= 0 THEN 0
    ELSE IF years >= 6 THEN FSW_WORK_POINTS[6]
    ELSE IF years >= 4 THEN FSW_WORK_POINTS[4]
    ELSE IF years >= 2 THEN FSW_WORK_POINTS[2]
    ELSE FSW_WORK_POINTS[1]

fsw_adaptability(relative_in_canada) == IF relative_in_canada THEN 5 ELSE 0

\* Mutant: the language gate at CLB 6.
FswIssues_Gate6(primary_clb, foreign_work_years) ==
    (IF MinValue(primary_clb) < 6
        THEN <<"Primary language must be CLB 7+ in all abilities.">> ELSE <<>>)
    \o
    (IF foreign_work_years < 1
        THEN <<"At least 1 year of continuous full-time (or equivalent) foreign work is required.">>
        ELSE <<>>)

FswIssues(primary_clb, foreign_work_years) ==
    (IF MinValue(primary_clb) < 7
        THEN <<"Primary language must be CLB 7+ in all abilities.">> ELSE <<>>)
    \o
    (IF foreign_work_years < 1
        THEN <<"At least 1 year of continuous full-time (or equivalent) foreign work is required.">>
        ELSE <<>>)

fsw_eligibility(age, education, primary_clb, secondary_clb, foreign_work_years, relative_in_canada) ==
    IF education \notin EDUCATION_LEVELS THEN Raised("Education level not supported.")
    ELSE
    LET issues == FswIssues(primary_clb, foreign_work_years)
        age_pts == fsw_age(age)
        edu_pts == fsw_education(education)
        lang_primary_pts == fsw_language_primary(primary_clb)
        lang_secondary_pts == fsw_language_secondary(secondary_clb)
        work_pts == fsw_work_experience(foreign_work_years)
        arranged_employment == 0
        adaptability == fsw_adaptability(relative_in_canada)
        total == age_pts + edu_pts + lang_primary_pts + lang_secondary_pts
                 + work_pts + arranged_employment + adaptability
    IN  [raised |-> FALSE,
         total |-> total,
         pass |-> (total >= 67 /\ issues = <<>>),
         breakdown |-> [age |-> age_pts,
                        education |-> edu_pts,
                        language_primary |-> lang_primary_pts,
                        language_secondary |-> lang_secondary_pts,
                        foreign_work |-> work_pts,
                        arranged_employment |-> arranged_employment,
                        adaptability |-> adaptability],
         issues |-> issues]

(***************************************************************************)
(* CRS core                                                                *)
(***************************************************************************)
\* max(k for k in CRS_AGE_POINTS if k <= age)
MaxKeyAtMost(table, age) ==
    CHOOSE k \in {j \in DOMAIN table : j <= age} :
        \A j \in {i \in DOMAIN table : i <= age} : j <= k

crs_age(age) ==
    IF age < 17 THEN 0
    ELSE IF age > 47 THEN 0
    ELSE IF age \in DOMAIN CRS_AGE_POINTS THEN CRS_AGE_POINTS[age]
    ELSE CRS_AGE_POINTS[MaxKeyAtMost(CRS_AGE_POINTS, age)]

crs_education(level) ==
    IF level \notin EDUCATION_LEVELS THEN Raised("Invalid education level")
    ELSE CRS_EDU_POINTS[level]

CrsPrimarySkillPoints(level) ==
    IF level >= 10 THEN 34
    ELSE IF level = 9 THEN 31
    ELSE IF level = 8 THEN 23
    ELSE IF level = 7 THEN 17
    ELSE IF level = 6 THEN 9
    ELSE IF level = 5 THEN 6
    ELSE 0

crs_language_primary(clb) ==
    LET levels == Values(clb)
    IN  SumSeq([i \in 1..Len(levels) |-> CrsPrimarySkillPoints(levels[i])])

\* Mutant: the points of the two upper tiers are swapped.
CrsSecondarySkillPoints_Swapped(level) ==
    IF level >= 9 THEN 3
    ELSE IF level >= 7 THEN 6
    ELSE IF level >= 5 THEN 1
    ELSE 0

CrsSecondarySkillPoints(level) ==
    IF level >= 9 THEN 6
    ELSE IF level >= 7 THEN 3
    ELSE IF level >= 5 THEN 1
    ELSE 0

crs_language_secondary(clb) ==
    LET levels == Values(clb)
        score == SumSeq([i \in 1..Len(levels) |-> CrsSecondarySkillPoints(levels[i])])
    IN  Min2(score, 24)

crs_foreign_work(years) == 0

(***************************************************************************)
(* Skill transferability                                                   *)
(***************************************************************************)
_has_all_primary_at_least(clb, threshold) == MinValue(clb) >= threshold

transfer_education_language(education, primary_clb) ==
    IF ~_has_all_primary_at_least(primary_clb, 7) THEN 0
    ELSE
    LET strong == _has_all_primary_at_least(primary_clb, 9)
    IN  IF education \in {"less_than_secondary", "secondary"} THEN 0
        ELSE IF education \in {"one_year_post_secondary", "two_year_post_secondary"}
            THEN (IF strong THEN 25 ELSE 13)
        ELSE IF education \in {"bachelor", "two_or_more", "masters", "professional_degree", "phd"}
            THEN (IF strong THEN 50 ELSE 25)
        ELSE 0

\* Mutant: the upper tier starts at 2 years.
transfer_foreign_work_language_Tier2(foreign_years, primary_clb) ==
    IF foreign_years < 1 THEN 0
    ELSE
    LET strong == _has_all_primary_at_least(primary_clb, 9)
    IN  IF ~_has_all_primary_at_least(primary_clb, 7) THEN 0
        ELSE IF foreign_years >= 2 THEN (IF strong THEN 50 ELSE 25)
        ELSE IF foreign_years >= 1 THEN (IF strong THEN 25 ELSE 13)
        ELSE 0

transfer_foreign_work_language(foreign_years, primary_clb) ==
    IF foreign_years < 1 THEN 0
    ELSE
    LET strong == _has_all_primary_at_least(primary_clb, 9)
    IN  IF ~_has_all_primary_at_least(primary_clb, 7) THEN 0
        ELSE IF foreign_years >= 3 THEN (IF strong THEN 50 ELSE 25)
        ELSE IF foreign_years >= 1 THEN (IF strong THEN 25 ELSE 13)
        ELSE 0

\* Mutant: the total leaves out the foreign-work part.
skill_transferability_EduOnly(education, foreign_years, primary_clb) ==
    LET education_language == transfer_education_language(education, primary_clb)
        foreign_language == transfer_foreign_work_language(foreign_years, primary_clb)
    IN  [total |-> Min2(education_language, 100),
         detail |-> [education_language |-> education_language,
                     foreign_work_language |-> foreign_language]]

skill_transferability(education, foreign_years, primary_clb) ==
    LET education_language == transfer_education_language(education, primary_clb)
        foreign_language == transfer_foreign_work_language(foreign_years, primary_clb)
    IN  [total |-> Min2(education_language + foreign_language, 100),
         detail |-> [education_language |-> education_language,
                     foreign_work_language |-> foreign_language]]

(***************************************************************************)
(* Bonus factors                                                           *)
(***************************************************************************)
job_offer_points(job_offer) ==
    IF job_offer = "teer00" THEN 200
    ELSE IF job_offer = "teer123" THEN 50
    ELSE 0

\* Mutant: the bonus is capped at the 600 points of a nomination.
bonus_points_Capped600(primary_clb, french_clb_, pnp, canadian_education, job_offer) ==
    LET pnp_pts == IF pnp THEN 600 ELSE 0
        french_bonus ==
            IF MinValue(french_clb_) >= 7
                THEN (IF _has_all_primary_at_least(primary_clb, 5) THEN 50 ELSE 25)
                ELSE 0
        caned_pts == IF canadian_education THEN 15 ELSE 0
        offer_pts == job_offer_points(job_offer)
    IN  [total |-> Min2(pnp_pts + french_bonus + caned_pts + offer_pts, 600),
         detail |-> [pnp |-> pnp_pts,
                     french_bonus |-> french_bonus,
                     canadian_education |-> caned_pts,
                     job_offer |-> offer_pts]]

bonus_points(primary_clb, french_clb_, pnp, canadian_education, job_offer) ==
    LET pnp_pts == IF pnp THEN 600 ELSE 0
        french_bonus ==
            IF MinValue(french_clb_) >= 7
                THEN (IF _has_all_primary_at_least(primary_clb, 5) THEN 50 ELSE 25)
                ELSE 0
        caned_pts == IF canadian_education THEN 15 ELSE 0
        offer_pts == job_offer_points(job_offer)
    IN  [total |-> pnp_pts + french_bonus + caned_pts + offer_pts,
         detail |-> [pnp |-> pnp_pts,
                     french_bonus |-> french_bonus,
                     canadian_education |-> caned_pts,
                     job_offer |-> offer_pts]]

(***************************************************************************)
(* compute_crs: reads the module-level AGE, and EDUCATION when no          *)
(* education is passed.                                                    *)
(***************************************************************************)
compute_crs(english, french, foreign_years, pnp, canadian_education, job_offer, education) ==
    \* education or EDUCATION: None and the empty string both fall back.
    LET edu_level == IF education = None \/ education = "" THEN cfg.EDUCATION ELSE education
    IN
    IF edu_level \notin EDUCATION_LEVELS THEN Raised("Invalid education level")
    ELSE
    LET age_pts == crs_age(cfg.AGE)
        edu_pts == crs_education(edu_level)
        lang_primary_pts == crs_language_primary(english)
        lang_secondary_pts == crs_language_secondary(french)
        foreign_pts == crs_foreign_work(foreign_years)
        core_total == age_pts + edu_pts + lang_primary_pts + lang_secondary_pts + foreign_pts
        transfer == skill_transferability(edu_level, foreign_years, english)
        bonus == bonus_points(english, french, pnp, canadian_education, job_offer)
    IN  [raised |-> FALSE,
         total |-> core_total + transfer.total + bonus.total,
         core_total |-> core_total,
         transfer_total |-> transfer.total,
         bonus_total |-> bonus.total,
         breakdown |-> [age |-> age_pts,
                        education |-> edu_pts,
                        english |-> lang_primary_pts,
                        french |-> lang_secondary_pts,
                        foreign_work |-> foreign_pts],
         transfer_detail |-> transfer.detail,
         bonus_detail |-> bonus.detail]

(***************************************************************************)
(* Actionable deltas                                                       *)
(***************************************************************************)
\* Mutant: the target is two levels above the minimum.
next_clb_target_Skip(current, max_target) ==
    LET min_level == MinValue(current)
    IN  IF min_level >= max_target
            THEN [target |-> min_level, skills |-> <<>>]
            ELSE LET target == Min2(min_level + 2, max_target)
                 IN  [target |-> target, skills |-> SkillsBelow(current, target)]

next_clb_target(current, max_target) ==
    LET min_level == MinValue(current)
    IN  IF min_level >= max_target
            THEN [target |-> min_level, skills |-> <<>>]
            ELSE LET target == Min2(min_level + 1, max_target)
                 IN  [target |-> target, skills |-> SkillsBelow(current, target)]

RECURSIVE ScanThresholds(_, _)
\* The for loop of next_relevant_french_target from threshold i on.  The
\* returned target is <<threshold>>, or <<>> for None.
ScanThresholds(clb, i) ==
    IF i > Len(FRENCH_THRESHOLDS) THEN [target |-> <<>>, skills |-> <<>>]
    ELSE IF MinValue(clb) < FRENCH_THRESHOLDS[i]
        THEN [target |-> <<FRENCH_THRESHOLDS[i]>>,
              skills |-> SkillsBelow(clb, FRENCH_THRESHOLDS[i])]
    ELSE ScanThresholds(clb, i + 1)

\* Mutant: a threshold the minimum level has just reached still counts as
\* the next target.
next_relevant_french_target_Reached(clb) ==
    LET open == {i \in 1..Len(FRENCH_THRESHOLDS) : MinValue(clb) <= FRENCH_THRESHOLDS[i]}
    IN  IF open = {} THEN [target |-> <<>>, skills |-> <<>>]
        ELSE LET i == CHOOSE j \in open : \A k \in open : j <= k
             IN  [target |-> <<FRENCH_THRESHOLDS[i]>>,
                  skills |-> SkillsBelow(clb, FRENCH_THRESHOLDS[i])]

next_relevant_french_target(clb) == ScanThresholds(clb, 1)

\* EDUCATION_ORDER.index(current)
IndexOf(seq, x) == CHOOSE i \in 1..Len(seq) : seq[i] = x /\ \A j \in 1..(i - 1) : seq[j] # x

\* Mutant: the level after phd wraps around to the first one.
next_education_level_Wrap(current) ==
    IF current \notin {EDUCATION_ORDER[i] : i \in 1..Len(EDUCATION_ORDER)}
        THEN Raised("Education level not supported.")
    ELSE LET idx == IndexOf(EDUCATION_ORDER, current)
         IN  EDUCATION_ORDER[(idx % Len(EDUCATION_ORDER)) + 1]

next_education_level(current) ==
    IF current \notin {EDUCATION_ORDER[i] : i \in 1..Len(EDUCATION_ORDER)}
        THEN Raised("Education level not supported.")
    ELSE LET idx == IndexOf(EDUCATION_ORDER, current)
         IN  IF idx >= Len(EDUCATION_ORDER) THEN None ELSE EDUCATION_ORDER[idx + 1]

\* Mutant: every skill is set to the target, higher ones too.
Boosted_SetAll(clb, target) == [skill \in DOMAIN clb |-> target]

\* {skill: max(level, target) for skill, level in clb.items()}
Boosted(clb, target) == [skill \in DOMAIN clb |-> Max2(clb[skill], target)]

\* The returned dict: delta, new_crs and the condition (its text and the values
\* formatted into it).
Delta(delta, new_crs, text, args) ==
    [raised |-> FALSE, delta |-> delta, new_crs |-> new_crs, condition |-> [text |-> text, args |-> args]]

delta_english_next_clb(english, french, foreign_years, pnp, canadian_education, job_offer) ==
    LET t == next_clb_target(english, 10)
        current == compute_crs(english, french, foreign_years, pnp, canadian_education, job_offer, None)
    IN  IF current.raised THEN current
        ELSE IF t.skills = <<>>
            THEN Delta(0, current.total, "English already at max CLB 10.", <<>>)
        ELSE LET boosted == Boosted(english, t.target)
                 new_total == compute_crs(boosted, french, foreign_years, pnp, canadian_education, job_offer, None).total
             IN  Delta(new_total - current.total, new_total,
                       "Reach CLB {target} in English for {skills}", <<t.target, t.skills>>)

delta_french_next_clb(english, french, foreign_years, pnp, canadian_education, job_offer) ==
    LET t == next_relevant_french_target(french)
        current == compute_crs(english, french, foreign_years, pnp, canadian_education, job_offer, None)
    IN  IF current.raised THEN current
        ELSE IF t.target = <<>>
            THEN Delta(0, current.total, "French already at max NCLC 10.", <<>>)
        ELSE LET boosted == Boosted(french, t.target[1])
                 new_total == compute_crs(english, boosted, foreign_years, pnp, canadian_education, job_offer, None).total
             IN  Delta(new_total - current.total, new_total,
                       "Reach NCLC {target} in French for {skills}", <<t.target[1], t.skills>>)

delta_education_next_level(education, english, french, foreign_years, pnp, canadian_education, job_offer) ==
    LET target_level == next_education_level(education)
        current == compute_crs(english, french, foreign_years, pnp, canadian_education, job_offer, education)
    IN  IF education \notin {EDUCATION_ORDER[i] : i \in 1..Len(EDUCATION_ORDER)} THEN target_level
        ELSE IF current.raised THEN current
        ELSE IF target_level = None
            THEN Delta(0, current.total, "Education already at highest level (phd).", <<>>)
        ELSE LET new_total == compute_crs(english, french, foreign_years, pnp, canadian_education, job_offer, target_level).total
             IN  Delta(new_total - current.total, new_total,
                       "Complete education upgrade: {education} -> {target_level}",
                       <<education, target_level>>)

delta_plus_one_year_work(english, french, foreign_years, pnp, canadian_education, job_offer) ==
    LET current == compute_crs(english, french, foreign_years, pnp, canadian_education, job_offer, None)
    IN  IF current.raised THEN current
        ELSE IF foreign_years >= 3
            THEN Delta(0, current.total, "Foreign work already maxed for CRS (3+ years)", <<>>)
        ELSE LET new_years == foreign_years + 1
                 new_total == compute_crs(english, french, new_years, pnp, canadian_education, job_offer, None).total
             IN  Delta(new_total - current.total, new_total,
                       "Accumulate {new_years} years foreign work", <<new_years>>)

\* Takes no pnp: scores the current total with pnp = False, and reads the
\* module-level CANADIAN_EDUCATION.
delta_pnp(english, french, foreign_years, job_offer) ==
    LET current == compute_crs(english, french, foreign_years, FALSE, cfg.CANADIAN_EDUCATION, job_offer, None)
        new_total == compute_crs(english, french, foreign_years, TRUE, cfg.CANADIAN_EDUCATION, job_offer, None).total
    IN  IF current.raised THEN current
        ELSE Delta(new_total - current.total, new_total, "Secure a provincial nomination (600 pts)", <<>>)

\* Scores the current total with canadian_education = False.
delta_canadian_education(english, french, foreign_years, pnp, job_offer) ==
    LET current == compute_crs(english, french, foreign_years, pnp, FALSE, job_offer, None)
        new_total == compute_crs(english, french, foreign_years, pnp, TRUE, job_offer, None).total
    IN  IF current.raised THEN current
        ELSE Delta(new_total - current.total, new_total, "Complete eligible Canadian education (2+ years)", <<>>)

(***************************************************************************)
(* render(): the pipeline over the module-level configuration              *)
(***************************************************************************)
\* Mutant: the converted scores are used whether or not the exam was taken.
Convert_IgnoreExamDone ==
    /\ pc = "convert"
    /\ english_clb_reference' = ielts_to_clb(cfg.IELTS)
    /\ french_clb_reference' = tcf_to_nclc(cfg.TCF)
    /\ english_clb' = ielts_to_clb(cfg.IELTS)
    /\ french_clb' = tcf_to_nclc(cfg.TCF)
    /\ pc' = "fsw"
    /\ UNCHANGED <<cfg, fsw, crs, actions>>
    /\ UNCHANGED <<call, returned, config, mba>>

\* english_clb_reference, french_clb_reference, english_clb, french_clb
Convert ==
    /\ pc = "convert"
    /\ english_clb_reference' = ielts_to_clb(cfg.IELTS)
    /\ french_clb_reference' = tcf_to_nclc(cfg.TCF)
    /\ english_clb' = IF cfg.ENGLISH_EXAM_DONE
                        THEN ielts_to_clb(cfg.IELTS) ELSE zero_clb(IELTS_CLB_TABLE)
    /\ french_clb' = IF cfg.FRENCH_EXAM_DONE
                        THEN tcf_to_nclc(cfg.TCF) ELSE zero_clb(TCF_NCLC_TABLE)
    /\ pc' = "fsw"
    /\ UNCHANGED <<cfg, fsw, crs, actions>>
    /\ UNCHANGED <<call, returned, config, mba>>

\* fsw = fsw_eligibility(AGE, EDUCATION, english_clb, french_clb, ...)
ScoreFSW ==
    /\ pc = "fsw"
    /\ fsw' = fsw_eligibility(cfg.AGE, cfg.EDUCATION, english_clb, french_clb,
                              cfg.FOREIGN_WORK_YEARS, cfg.RELATIVE_IN_CANADA)
    /\ pc' = IF fsw'.raised THEN "raised" ELSE "crs"
    /\ UNCHANGED <<cfg, english_clb_reference, french_clb_reference,
                   english_clb, french_clb, crs, actions>>
    /\ UNCHANGED <<call, returned, config, mba>>

\* crs = compute_crs(english_clb, french_clb, FOREIGN_WORK_YEARS, PNP, ...)
ScoreCRS ==
    /\ pc = "crs"
    /\ crs' = compute_crs(english_clb, french_clb, cfg.FOREIGN_WORK_YEARS, cfg.PNP,
                          cfg.CANADIAN_EDUCATION, cfg.JOB_OFFER, None)
    /\ pc' = IF crs'.raised THEN "raised" ELSE "actions"
    /\ UNCHANGED <<cfg, english_clb_reference, french_clb_reference,
                   english_clb, french_clb, fsw, actions>>
    /\ UNCHANGED <<call, returned, config, mba>>

\* actions = [delta_english_next_clb(...), ..., delta_canadian_education(...)]
Actions ==
    /\ pc = "actions"
    /\ actions' =
        <<delta_english_next_clb(english_clb, french_clb, cfg.FOREIGN_WORK_YEARS,
                                 cfg.PNP, cfg.CANADIAN_EDUCATION, cfg.JOB_OFFER),
          delta_french_next_clb(english_clb, french_clb, cfg.FOREIGN_WORK_YEARS,
                                cfg.PNP, cfg.CANADIAN_EDUCATION, cfg.JOB_OFFER),
          delta_education_next_level(cfg.EDUCATION, english_clb, french_clb,
                                     cfg.FOREIGN_WORK_YEARS, cfg.PNP,
                                     cfg.CANADIAN_EDUCATION, cfg.JOB_OFFER),
          delta_plus_one_year_work(english_clb, french_clb, cfg.FOREIGN_WORK_YEARS,
                                   cfg.PNP, cfg.CANADIAN_EDUCATION, cfg.JOB_OFFER),
          delta_pnp(english_clb, french_clb, cfg.FOREIGN_WORK_YEARS, cfg.JOB_OFFER),
          delta_canadian_education(english_clb, french_clb, cfg.FOREIGN_WORK_YEARS,
                                   cfg.PNP, cfg.JOB_OFFER)>>
    /\ pc' = "done"
    /\ UNCHANGED <<cfg, english_clb_reference, french_clb_reference,
                   english_clb, french_clb, fsw, crs>>
    /\ UNCHANGED <<call, returned, config, mba>>

(***************************************************************************)
(* Direct calls: a caller holding the arguments in call invokes            *)
(* compute_crs and the six delta functions on them, twice.  Between the    *)
(* two invocations a module-level value may be assigned.                   *)
(***************************************************************************)
\* compute_crs and the six delta functions on the arguments c.
Invocation(c) ==
    [crs |-> compute_crs(c.english, c.french, c.foreign_years, c.pnp,
                         c.canadian_education, c.job_offer, None),
     deltas |->
        <<delta_english_next_clb(c.english, c.french, c.foreign_years, c.pnp,
                                 c.canadian_education, c.job_offer),
          delta_french_next_clb(c.english, c.french, c.foreign_years, c.pnp,
                                c.canadian_education, c.job_offer),
          delta_education_next_level(c.education, c.english, c.french, c.foreign_years,
                                     c.pnp, c.canadian_education, c.job_offer),
          delta_plus_one_year_work(c.english, c.french, c.foreign_years, c.pnp,
                                   c.canadian_education, c.job_offer),
          delta_pnp(c.english, c.french, c.foreign_years, c.job_offer),
          delta_canadian_education(c.english, c.french, c.foreign_years, c.pnp,
                                   c.job_offer)>>]

\* Mutant: delta_english_next_clb raises the levels in the caller's own dict
\* instead of a copy.
Invoke_InPlace ==
    /\ pc \in {"call", "called", "assigned"}
    /\ returned' = Append(returned, Invocation(call))
    /\ call' = [call EXCEPT !.english = Boosted(call.english, next_clb_target(call.english, 10).target)]
    /\ pc' = IF pc = "call" THEN "called"
             ELSE IF pc = "called" THEN "called_twice" ELSE "called_after_assign"
    /\ UNCHANGED <<cfg, english_clb_reference, french_clb_reference,
                   english_clb, french_clb, fsw, crs, actions, config, mba>>

\* One invocation.  The functions only read their arguments and the module
\* level: the boosted level sets are new dicts, the years a new int.
Invoke ==
    /\ pc \in {"call", "called", "assigned"}
    /\ returned' = Append(returned, Invocation(call))
    /\ pc' = IF pc = "call" THEN "called"
             ELSE IF pc = "called" THEN "called_twice" ELSE "called_after_assign"
    /\ UNCHANGED <<cfg, english_clb_reference, french_clb_reference,
                   english_clb, french_clb, fsw, crs, actions, call, config, mba>>

\* Values a module-level name is assigned between the two invocations.
AssignedAges == {19, 30, 46}

AssignedEducations == {"secondary", "masters"}

\* AGE = ..., EDUCATION = ... or CANADIAN_EDUCATION = ... at module level.
Assign ==
    /\ pc = "called"
    /\ \/ \E age \in AssignedAges \ {cfg.AGE} : cfg' = [cfg EXCEPT !.AGE = age]
       \/ \E edu \in AssignedEducations \ {cfg.EDUCATION} : cfg' = [cfg EXCEPT !.EDUCATION = edu]
       \/ cfg' = [cfg EXCEPT !.CANADIAN_EDUCATION = ~cfg.CANADIAN_EDUCATION]
    /\ pc' = "assigned"
    /\ UNCHANGED <<english_clb_reference, french_clb_reference,
                   english_clb, french_clb, fsw, crs, actions, call, returned, config, mba>>

(***************************************************************************)
(* config.py: the two scenarios and _apply, which copies the selected one  *)
(* into the module namespace.                                              *)
(***************************************************************************)
\* Fields of the Scenario TypedDict.
ScenarioFields ==
    {"AGE", "EDUCATION", "FOREIGN_WORK_YEARS", "IELTS", "TCF", "ENGLISH_EXAM_DONE",
     "FRENCH_EXAM_DONE", "PROOF_OF_FUNDS_CAD", "PROOF_OF_WORK", "ECA_DONE",
     "POLICE_CERTIFICATES_DONE", "PASSPORT_VALID", "PNP", "CANADIAN_EDUCATION",
     "RELATIVE_IN_CANADA", "JOB_OFFER", "MBA_APPLICANT_TYPE", "MBA_INTAKE",
     "MBA_INTAKE_YEAR", "MBA_GPA_LAST_TWO_YEARS", "MBA_HAS_FOUR_YEAR_DEGREE",
     "MBA_WORK_YEARS", "MBA_GMAT_SCORE", "MBA_GRE_VERBAL", "MBA_GRE_QUANT",
     "MBA_NATIVE_ENGLISH", "MBA_IELTS", "MBA_DOCUMENTS"}

\* The REAL dict; it has no "MBA_IELTS" key.
REAL ==
    [AGE |-> 23,
     EDUCATION |-> "secondary",
     FOREIGN_WORK_YEARS |-> 2,
     IELTS |-> [listening |-> 16, reading |-> 16, writing |-> 16, speaking |-> 16],
     TCF |-> [listening |-> 150, reading |-> 150, writing |-> 3, speaking |-> 3],
     ENGLISH_EXAM_DONE |-> FALSE,
     FRENCH_EXAM_DONE |-> FALSE,
     PROOF_OF_FUNDS_CAD |-> 0,
     PROOF_OF_WORK |-> FALSE,
     ECA_DONE |-> FALSE,
     POLICE_CERTIFICATES_DONE |-> FALSE,
     PASSPORT_VALID |-> TRUE,
     PNP |-> FALSE,
     CANADIAN_EDUCATION |-> FALSE,
     RELATIVE_IN_CANADA |-> TRUE,
     JOB_OFFER |-> None,
     MBA_APPLICANT_TYPE |-> "international",
     MBA_INTAKE |-> "september",
     MBA_INTAKE_YEAR |-> 2025,
     MBA_GPA_LAST_TWO_YEARS |-> 307,
     MBA_HAS_FOUR_YEAR_DEGREE |-> FALSE,
     MBA_WORK_YEARS |-> 2,
     MBA_GMAT_SCORE |-> <<>>,
     MBA_GRE_VERBAL |-> <<>>,
     MBA_GRE_QUANT |-> <<>>,
     MBA_NATIVE_ENGLISH |-> FALSE,
     MBA_DOCUMENTS |-> [resume |-> TRUE, essay_1 |-> FALSE, essay_2 |-> FALSE,
                        reference_1 |-> FALSE, reference_2 |-> FALSE,
                        transcripts |-> TRUE]]

IDEAL ==
    [AGE |-> 23,
     EDUCATION |-> "bachelor",
     FOREIGN_WORK_YEARS |-> 3,
     IELTS |-> [listening |-> 16, reading |-> 16, writing |-> 16, speaking |-> 16],
     TCF |-> [listening |-> 330, reading |-> 330, writing |-> 8, speaking |-> 8],
     ENGLISH_EXAM_DONE |-> TRUE,
     FRENCH_EXAM_DONE |-> TRUE,
     PROOF_OF_FUNDS_CAD |-> 17000,
     PROOF_OF_WORK |-> TRUE,
     ECA_DONE |-> TRUE,
     POLICE_CERTIFICATES_DONE |-> TRUE,
     PASSPORT_VALID |-> TRUE,
     PNP |-> FALSE,
     CANADIAN_EDUCATION |-> FALSE,
     RELATIVE_IN_CANADA |-> TRUE,
     JOB_OFFER |-> None,
     MBA_APPLICANT_TYPE |-> "international",
     MBA_INTAKE |-> "september",
     MBA_INTAKE_YEAR |-> 2025,
     MBA_GPA_LAST_TWO_YEARS |-> 370,
     MBA_HAS_FOUR_YEAR_DEGREE |-> TRUE,
     MBA_WORK_YEARS |-> 3,
     MBA_GMAT_SCORE |-> <<660>>,
     MBA_GRE_VERBAL |-> <<158>>,
     MBA_GRE_QUANT |-> <<160>>,
     MBA_NATIVE_ENGLISH |-> FALSE,
     MBA_IELTS |-> [listening |-> 16, reading |-> 16, writing |-> 16, speaking |-> 16],
     MBA_DOCUMENTS |-> [resume |-> TRUE, essay_1 |-> TRUE, essay_2 |-> TRUE,
                        reference_1 |-> TRUE, reference_2 |-> TRUE,
                        transcripts |-> TRUE]]

\* globals().update(scenario): every key of the scenario is bound to its
\* value, every other name of the namespace keeps its binding.
Updated(namespace, scenario) ==
    [name \in DOMAIN namespace \cup DOMAIN scenario |->
        IF name \in DOMAIN scenario THEN scenario[name] ELSE namespace[name]]

\* A call that returned value without raising.
Returned(value) == [raised |-> FALSE, value |-> value]

\* Mutant: an unknown profile name selects the real scenario.
_apply_DefaultReal(profile) ==
    /\ call' = profile
    /\ IF profile \notin DOMAIN config.SCENARIOS
        THEN /\ returned' = Raised("PROFILE must be one of ('real', 'ideal')")
             /\ config' = Updated(config, config.SCENARIOS.real)
        ELSE /\ returned' = Returned(None)
             /\ config' = Updated(config, config.SCENARIOS[profile])

\* _apply(profile), called on the name in call'.
_apply(profile) ==
    /\ call' = profile
    /\ IF profile \notin DOMAIN config.SCENARIOS
        THEN /\ returned' = Raised("PROFILE must be one of ('real', 'ideal')")
             /\ config' = config
        ELSE /\ returned' = Returned(None)
             /\ config' = Updated(config, config.SCENARIOS[profile])

\* Importing config runs _apply(PROFILE); a raise there ends the import.
Import ==
    /\ pc = "import"
    /\ _apply(config.PROFILE)
    /\ pc' = IF returned'.raised THEN "failed" ELSE "loaded"
    /\ UNCHANGED <<cfg, english_clb_reference, french_clb_reference,
                   english_clb, french_clb, fsw, crs, actions, mba>>

\* Names a caller selects a scenario by.
ProfileNames == {"real", "ideal", "dream"}

\* A later selection, config._apply(name).
Apply ==
    /\ pc = "loaded"
    /\ \E profile \in ProfileNames : _apply(profile)
    /\ UNCHANGED <<cfg, pc, english_clb_reference, french_clb_reference,
                   english_clb, french_clb, fsw, crs, actions, mba>>

(***************************************************************************)
(* ucalgary_mba.py: the eligibility checks on the names imported from      *)
(* config.                                                                 *)
(***************************************************************************)
GPA_MIN == 300

WORK_YEARS_MIN == 2

GMAT_RECOMMENDED == 550

GRE_RECOMMENDED == <<155, 155>>

IELTS_COMPONENT_MIN == 12

DocumentOrder == <<"resume", "essay_1", "essay_2", "reference_1", "reference_2", "transcripts">>

DOCUMENT_LABELS ==
    [resume |-> "Resume",
     essay_1 |-> "Essay 1 (250 words)",
     essay_2 |-> "Essay 2 (250 words)",
     reference_1 |-> "Reference 1 (professional questionnaire)",
     reference_2 |-> "Reference 2 (professional questionnaire)",
     transcripts |-> "Official transcripts"]

gpa_ok(gpa) == gpa >= GPA_MIN

degree_ok(has_four_year_degree) == has_four_year_degree

work_ok(years) == years >= WORK_YEARS_MIN

gmat_ok(score) == score # <<>> /\ score[1] >= GMAT_RECOMMENDED

gre_ok(verbal, quant) ==
    /\ verbal # <<>>
    /\ quant # <<>>
    /\ verbal[1] >= GRE_RECOMMENDED[1]
    /\ quant[1] >= GRE_RECOMMENDED[2]

\* Only the bands present in the dict are compared with the minimum.
english_ok(native, exam_done, bands) ==
    IF native THEN [ok |-> TRUE, note |-> "Waived (native English)"]
    ELSE IF ~exam_done THEN [ok |-> FALSE, note |-> "English exam not taken"]
    ELSE IF DOMAIN bands = {} THEN [ok |-> FALSE, note |-> "IELTS band scores missing"]
    ELSE IF \E k \in DOMAIN bands : bands[k] < IELTS_COMPONENT_MIN
        THEN [ok |-> FALSE, note |-> "IELTS bands below minimum"]
    ELSE [ok |-> TRUE, note |-> "IELTS meets minimums (bands only, no overall required)"]

test_score_ok(gmat, gre_v, gre_q) ==
    IF gmat_ok(gmat) THEN [ok |-> TRUE, note |-> "GMAT (recommended)"]
    ELSE IF gre_ok(gre_v, gre_q) THEN [ok |-> TRUE, note |-> "GRE (recommended high verbal + quant)"]
    ELSE [ok |-> FALSE, note |-> "GMAT/GRE missing or below recommended threshold"]

\* Insertion order of the checks dict.
CheckOrder == <<"gpa", "degree", "work", "test", "english", "documents">>

\* evaluate(): the English check is made on IELTS and ENGLISH_EXAM_DONE.
evaluate ==
    LET test == test_score_ok(config.MBA_GMAT_SCORE, config.MBA_GRE_VERBAL, config.MBA_GRE_QUANT)
        english == english_ok(config.MBA_NATIVE_ENGLISH, config.ENGLISH_EXAM_DONE, config.IELTS)
        docs_ok == \A k \in DOMAIN config.MBA_DOCUMENTS : config.MBA_DOCUMENTS[k]
        missing_docs == SelectSeq(DocumentOrder,
                            LAMBDA k : k \in DOMAIN config.MBA_DOCUMENTS /\ ~config.MBA_DOCUMENTS[k])
        checks == [gpa |-> gpa_ok(config.MBA_GPA_LAST_TWO_YEARS),
                   degree |-> degree_ok(config.MBA_HAS_FOUR_YEAR_DEGREE),
                   work |-> work_ok(config.MBA_WORK_YEARS),
                   test |-> test.ok,
                   english |-> english.ok,
                   documents |-> docs_ok]
        issues == SelectSeq(CheckOrder, LAMBDA label : ~checks[label])
    IN  [eligible |-> issues = <<>>,
         checks |-> checks,
         notes |-> [test |-> test.note,
                    english |-> english.note,
                    documents |-> IF docs_ok THEN <<"See individual document checklist below">>
                                  ELSE <<"Missing: ">> \o [i \in 1..Len(missing_docs) |->
                                                            DOCUMENT_LABELS[missing_docs[i]]]],
         issues |-> issues]

\* ucalgary_mba imports the names from config as they are bound at that
\* moment, and main() calls evaluate().
Evaluate ==
    /\ pc = "loaded"
    /\ mba' = evaluate
    /\ pc' = "evaluated"
    /\ UNCHANGED <<cfg, english_clb_reference, french_clb_reference,
                   english_clb, french_clb, fsw, crs, actions, call, returned, config>>

(***************************************************************************)
(* Inputs                                                                  *)
(***************************************************************************)
MinAge == 15
MaxAge == 49
MaxYears == 7
MinBand2 == 6
MaxBand2 == 17
TcfSlack == 0
FswStepAge == 34

\* The user-input block of express_entry.py.
DefaultConfig ==
    [AGE |-> 23,
     EDUCATION |-> "bachelor",
     FOREIGN_WORK_YEARS |-> 2,
     IELTS |-> [listening |-> 16, reading |-> 16, writing |-> 16, speaking |-> 16],
     TCF |-> [listening |-> 150, reading |-> 150, writing |-> 3, speaking |-> 3],
     ENGLISH_EXAM_DONE |-> TRUE,
     FRENCH_EXAM_DONE |-> FALSE,
     PNP |-> FALSE,
     CANADIAN_EDUCATION |-> FALSE,
     RELATIVE_IN_CANADA |-> TRUE,
     JOB_OFFER |-> None]

JobOffers == {None, "teer00", "teer123"}

Levels == 0..10

UniformLevels(level) == [skill \in Skills |-> level]

\* Raw score mappings: any subset of the skills may be missing.
\* scoresOf[skill] is the set of scores the skill may take.
PartialMaps(scoresOf) ==
    UNION {{m \in [K -> UNION {scoresOf[s] : s \in K}] : \A s \in K : m[s] \in scoresOf[s]}
            : K \in SUBSET Skills}

IeltsScores(skill) == MinBand2..MaxBand2

\* 0, each threshold of the skill's ladder and the scores up to TcfSlack below it.
TcfScores(skill) ==
    {0} \cup
    {TCF_NCLC_TABLE[skill][i][1] - d : i \in 1..Len(TCF_NCLC_TABLE[skill]), d \in 0..TcfSlack}

\* Row i of the TCF table as a raw score set: the threshold of every skill.
TcfRow(i) == [skill \in Skills |-> TCF_NCLC_TABLE[skill][i][1]]

Unset == None

InitResults ==
    /\ fsw = Unset
    /\ crs = Unset
    /\ actions = Unset
    /\ call = Unset
    /\ returned = Unset
    /\ config = Unset
    /\ mba = Unset

\* render() on a configuration with raw scores and exam flags.
InitRender ==
    /\ \E flags \in BOOLEAN \X BOOLEAN, b \in MinBand2..MaxBand2,
          tcf \in {DefaultConfig.TCF} \cup {TcfRow(i) : i \in 1..Len(TCF_NCLC_TABLE.listening)},
          edu \in EDUCATION_LEVELS :
            cfg = [DefaultConfig EXCEPT !.ENGLISH_EXAM_DONE = flags[1],
                                        !.FRENCH_EXAM_DONE = flags[2],
                                        !.IELTS = UniformLevels(b),
                                        !.TCF = tcf,
                                        !.EDUCATION = edu]
    /\ pc = "convert"
    /\ english_clb_reference = Unset
    /\ french_clb_reference = Unset
    /\ english_clb = Unset
    /\ french_clb = Unset
    /\ InitResults

Next == Convert \/ ScoreFSW \/ ScoreCRS \/ Actions

Spec == InitRender /\ [][Next]_vars

(***************************************************************************)
(* The conversion functions on every raw score mapping of the bounds.      *)
(***************************************************************************)
InitLang ==
    /\ \/ \E ielts \in PartialMaps([s \in Skills |-> IeltsScores(s)]) : cfg = [DefaultConfig EXCEPT !.IELTS = ielts]
       \/ \E tcf \in PartialMaps([s \in Skills |-> TcfScores(s)]) : cfg = [DefaultConfig EXCEPT !.TCF = tcf]
    /\ pc = "convert"
    /\ english_clb_reference = Unset
    /\ french_clb_reference = Unset
    /\ english_clb = Unset
    /\ french_clb = Unset
    /\ InitResults

NextLang == Convert

SpecLang == InitLang /\ [][NextLang]_vars

(***************************************************************************)
(* The scoring functions called on level sets given directly, as a caller  *)
(* of fsw_eligibility, compute_crs and the delta functions passes them.    *)
(***************************************************************************)
\* All skills at level a, except skill s at level b.
TwoTone(a, b, s) == [UniformLevels(a) EXCEPT ![s] = b]

\* Uniform level sets, and those with one skill one level lower.
CoarseLevels ==
    {UniformLevels(a) : a \in Levels}
    \cup {TwoTone(a, a - 1, s) : a \in Levels \ {0}, s \in Skills}

InitLevelsGiven(english, french) ==
    /\ pc = "fsw"
    /\ english_clb_reference = Unset
    /\ french_clb_reference = Unset
    /\ english_clb = english
    /\ french_clb = french
    /\ InitResults

\* Age and education tables.
InitTables ==
    /\ \E age \in MinAge..MaxAge, edu \in EDUCATION_LEVELS :
            cfg = [DefaultConfig EXCEPT !.AGE = age, !.EDUCATION = edu]
    /\ InitLevelsGiven(ielts_to_clb(DefaultConfig.IELTS), UniformLevels(0))

\* FSW totals on both sides of the cutoff, with each gate met and missed.
InitGates ==
    /\ \E age \in FswStepAge..MaxAge, edu \in EDUCATION_LEVELS, years \in 0..MaxYears,
          relative \in BOOLEAN :
            cfg = [DefaultConfig EXCEPT !.AGE = age, !.EDUCATION = edu,
                                        !.FOREIGN_WORK_YEARS = years,
                                        !.RELATIVE_IN_CANADA = relative]
    /\ \E a \in 8..9, b \in 6..9 :
            InitLevelsGiven(TwoTone(a, b, "speaking"), UniformLevels(0))

\* Education and foreign work against the language level.
InitTransfer ==
    /\ \E edu \in EDUCATION_LEVELS, years \in 0..MaxYears :
            cfg = [DefaultConfig EXCEPT !.EDUCATION = edu, !.FOREIGN_WORK_YEARS = years]
    /\ \E english \in CoarseLevels, french \in {UniformLevels(0), UniformLevels(7)} :
            InitLevelsGiven(english, french)

\* The bonus factors.
InitBonus ==
    /\ \E pnp \in BOOLEAN, caned \in BOOLEAN, job \in JobOffers :
            cfg = [DefaultConfig EXCEPT !.PNP = pnp, !.CANADIAN_EDUCATION = caned,
                                        !.JOB_OFFER = job]
    /\ \E a \in Levels, b \in Levels : InitLevelsGiven(UniformLevels(a), UniformLevels(b))

InitScore == InitTables \/ InitGates \/ InitTransfer \/ InitBonus

NextScore == ScoreFSW \/ ScoreCRS \/ Actions

SpecScore == InitScore /\ [][NextScore]_vars

\* Every English level set, and every French level set.
InitLevels ==
    /\ cfg = DefaultConfig
    /\ \/ \E english \in [Skills -> Levels] : InitLevelsGiven(english, UniformLevels(0))
       \/ \E french \in [Skills -> Levels] :
            InitLevelsGiven(ielts_to_clb(DefaultConfig.IELTS), french)

SpecLevels == InitLevels /\ [][NextScore]_vars

(***************************************************************************)
(* Direct calls of compute_crs and the delta functions.                    *)
(***************************************************************************)
InitCalls ==
    /\ cfg = DefaultConfig
    /\ \E english \in {UniformLevels(4), UniformLevels(9), UniformLevels(10),
                        TwoTone(9, 6, "writing")},
          french \in {UniformLevels(0), UniformLevels(6), UniformLevels(9)},
          years \in {0, 2, 3},
          pnp \in BOOLEAN, caned \in BOOLEAN, job \in JobOffers,
          edu \in {"secondary", "bachelor", "phd"} :
            call = [english |-> english, french |-> french, foreign_years |-> years,
                    pnp |-> pnp, canadian_education |-> caned, job_offer |-> job,
                    education |-> edu]
    /\ returned = <<>>
    /\ pc = "call"
    /\ english_clb_reference = Unset
    /\ french_clb_reference = Unset
    /\ english_clb = Unset
    /\ french_clb = Unset
    /\ fsw = Unset
    /\ crs = Unset
    /\ actions = Unset
    /\ config = Unset
    /\ mba = Unset

NextCalls == Invoke \/ Assign

SpecCalls == InitCalls /\ [][NextCalls]_vars

(***************************************************************************)
(* Education and job-offer values outside the recognised ones.             *)
(***************************************************************************)
InvalidEducations == {"diploma", "Bachelor", ""}

InvalidJobOffers == {"teer4", "TEER00"}

InitEnum ==
    /\ \E edu \in EDUCATION_LEVELS \cup InvalidEducations,
          job \in JobOffers \cup InvalidJobOffers :
            cfg = [DefaultConfig EXCEPT !.EDUCATION = edu, !.JOB_OFFER = job]
    /\ \E a \in Levels : InitLevelsGiven(UniformLevels(a), UniformLevels(0))

SpecEnum == InitEnum /\ [][NextScore]_vars

(***************************************************************************)
(* config is imported with a hand-edited REAL scenario, scenarios are      *)
(* selected, and the MBA check is evaluated.                               *)
(***************************************************************************)
\* REAL with the six checks each met or missed.
EditedChecks ==
    {[REAL EXCEPT !.MBA_GPA_LAST_TWO_YEARS = gpa,
                  !.MBA_HAS_FOUR_YEAR_DEGREE = degree,
                  !.MBA_WORK_YEARS = work,
                  !.MBA_GMAT_SCORE = gmat,
                  !.MBA_NATIVE_ENGLISH = native,
                  !.MBA_DOCUMENTS = docs] :
        gpa \in {GPA_MIN - 1, GPA_MIN}, degree \in BOOLEAN,
        work \in {WORK_YEARS_MIN - 1, WORK_YEARS_MIN},
        gmat \in {<<>>, <<GMAT_RECOMMENDED>>}, native \in BOOLEAN,
        docs \in {REAL.MBA_DOCUMENTS, IDEAL.MBA_DOCUMENTS}}

\* REAL with the test scores absent, just below and at the recommended ones.
EditedTests ==
    {[REAL EXCEPT !.MBA_GMAT_SCORE = gmat, !.MBA_GRE_VERBAL = verbal, !.MBA_GRE_QUANT = quant] :
        gmat \in {<<>>, <<GMAT_RECOMMENDED - 1>>, <<GMAT_RECOMMENDED>>},
        verbal \in {<<>>, <<GRE_RECOMMENDED[1] - 1>>, <<GRE_RECOMMENDED[1]>>},
        quant \in {<<>>, <<GRE_RECOMMENDED[2] - 1>>, <<GRE_RECOMMENDED[2]>>}}

\* REAL with any bands present in IELTS, each just below or at the minimum.
EditedEnglish ==
    {[REAL EXCEPT !.MBA_NATIVE_ENGLISH = native, !.ENGLISH_EXAM_DONE = exam_done,
                  !.IELTS = bands] :
        native \in BOOLEAN, exam_done \in BOOLEAN,
        bands \in PartialMaps([s \in Skills |-> {IELTS_COMPONENT_MIN - 1, IELTS_COMPONENT_MIN}])}

\* The namespace of config.py before _apply(PROFILE) runs.
InitProfile ==
    /\ \E profile \in ProfileNames, real \in EditedChecks \cup EditedTests \cup EditedEnglish :
            config = [PROFILE |-> profile, SCENARIOS |-> [real |-> real, ideal |-> IDEAL]]
    /\ pc = "import"
    /\ cfg = DefaultConfig
    /\ english_clb_reference = Unset
    /\ french_clb_reference = Unset
    /\ english_clb = Unset
    /\ french_clb = Unset
    /\ fsw = Unset
    /\ crs = Unset
    /\ actions = Unset
    /\ call = Unset
    /\ returned = Unset
    /\ mba = Unset

NextProfile == Import \/ Apply \/ Evaluate

SpecProfile == InitProfile /\ [][NextProfile]_vars

(***************************************************************************)
(* Properties                                                              *)
(***************************************************************************)
FswDone == pc \in {"crs", "actions", "done"}

CrsDone == pc \in {"actions", "done"}

AllAtLeast(clb, n) == \A s \in Skills : clb[s] >= n

\* C1: fsw_eligibility passes exactly when total >= 67, every primary-language
\* skill is at level 7 or more and foreign work years >= 1; a missed gate leaves
\* a non-empty issues list and a failed result whatever the total.
C1_FswPassExactlyWhenTotalAndGates ==
    FswDone =>
        LET gates == AllAtLeast(english_clb, 7) /\ cfg.FOREIGN_WORK_YEARS >= 1
        IN  /\ fsw.pass <=> (fsw.total >= 67 /\ gates)
            /\ ~gates => (fsw.issues # <<>> /\ ~fsw.pass)

\* A total of 67 or more that fails on a gate, and one that passes.
C1_Witness ==
    /\ FswDone
    /\ fsw.total >= 67
    /\ ~AllAtLeast(english_clb, 7)
    /\ cfg.FOREIGN_WORK_YEARS >= 1
    /\ ~fsw.pass

\* C2: the FSW total is the sum of its breakdown; the CRS core_total is the sum
\* of its breakdown, bonus_total the sum of bonus_detail, transfer_total the sum
\* of transfer_detail capped at 100, and total = core + transfer + bonus.
C2_TotalsAreSumsOfBreakdowns ==
    /\ FswDone =>
        fsw.total = fsw.breakdown.age + fsw.breakdown.education
                    + fsw.breakdown.language_primary + fsw.breakdown.language_secondary
                    + fsw.breakdown.foreign_work + fsw.breakdown.arranged_employment
                    + fsw.breakdown.adaptability
    /\ CrsDone =>
        /\ crs.core_total = crs.breakdown.age + crs.breakdown.education
                            + crs.breakdown.english + crs.breakdown.french
                            + crs.breakdown.foreign_work
        /\ crs.bonus_total = crs.bonus_detail.pnp + crs.bonus_detail.french_bonus
                             + crs.bonus_detail.canadian_education + crs.bonus_detail.job_offer
        /\ crs.transfer_total =
            Min2(crs.transfer_detail.education_language
                 + crs.transfer_detail.foreign_work_language, 100)
        /\ crs.total = crs.core_total + crs.transfer_total + crs.bonus_total

\* A result with all three CRS parts and both transfer parts non-zero.
C2_Witness ==
    /\ CrsDone
    /\ crs.transfer_detail.education_language > 0
    /\ crs.transfer_detail.foreign_work_language > 0
    /\ crs.bonus_total > 0
    /\ fsw.total > 0

\* The education part and the foreign-work part of C3, from the claim's table.
C3_EducationPart(education, strong) ==
    IF education \in {"less_than_secondary", "secondary"} THEN 0
    ELSE IF education \in {"one_year_post_secondary", "two_year_post_secondary"}
        THEN (IF strong THEN 25 ELSE 13)
    ELSE (IF strong THEN 50 ELSE 25)

C3_WorkPart(years, strong) ==
    IF years < 1 THEN 0
    ELSE IF years <= 2 THEN (IF strong THEN 25 ELSE 13)
    ELSE (IF strong THEN 50 ELSE 25)

\* C3: skill transferability never exceeds 100; it is 0 when any primary skill
\* is below 7, otherwise the education part plus the foreign-work part of the
\* table; phd with 3+ years and all skills >= 9 gives exactly 100.
C3_TransferabilityTable ==
    CrsDone =>
        LET strong == AllAtLeast(english_clb, 9)
        IN  /\ crs.transfer_total <= 100
            /\ ~AllAtLeast(english_clb, 7) => crs.transfer_total = 0
            /\ AllAtLeast(english_clb, 7) =>
                crs.transfer_total = C3_EducationPart(cfg.EDUCATION, strong)
                                     + C3_WorkPart(cfg.FOREIGN_WORK_YEARS, strong)
            /\ (cfg.EDUCATION = "phd" /\ cfg.FOREIGN_WORK_YEARS >= 3 /\ strong)
                    => crs.transfer_total = 100

\* phd, 3+ years, all skills >= 9: exactly 100.
C3_Witness ==
    /\ CrsDone
    /\ cfg.EDUCATION = "phd"
    /\ cfg.FOREIGN_WORK_YEARS >= 3
    /\ AllAtLeast(english_clb, 9)
    /\ crs.transfer_total = 100

C4_PrimaryPoints(level) ==
    CASE level >= 9 -> 6
      [] level = 8 -> 5
      [] level = 7 -> 4
      [] OTHER -> 0

\* C4: fsw_language_primary gives 6 / 5 / 4 / 0 points per skill at level
\* >= 9 / 8 / 7 / below and never more than 24 (24 with all four at level 10);
\* fsw_language_secondary gives 1 point per skill at level >= 5, never more than 4.
C4_FswLanguagePoints ==
    FswDone =>
        /\ fsw.breakdown.language_primary =
            C4_PrimaryPoints(english_clb.listening) + C4_PrimaryPoints(english_clb.reading)
            + C4_PrimaryPoints(english_clb.writing) + C4_PrimaryPoints(english_clb.speaking)
        /\ fsw.breakdown.language_primary <= 24
        /\ english_clb = UniformLevels(10) => fsw.breakdown.language_primary = 24
        /\ fsw.breakdown.language_secondary = Cardinality({s \in Skills : french_clb[s] >= 5})
        /\ fsw.breakdown.language_secondary <= 4

\* All four skills at level 10: exactly 24.
C4_Witness ==
    /\ FswDone
    /\ english_clb = UniformLevels(10)
    /\ fsw.breakdown.language_primary = 24

\* C5: along EDUCATION_ORDER fsw_education and crs_education never decrease
\* from a level to the next one, FSW within 0..25 and CRS within 0..150.
C5_EducationPointsMonotone ==
    CrsDone =>
        /\ fsw.breakdown.education \in 0..25
        /\ crs.breakdown.education \in 0..150
        /\ \A i \in 1..(Len(EDUCATION_ORDER) - 1) :
            cfg.EDUCATION = EDUCATION_ORDER[i] =>
                /\ fsw.breakdown.education <= fsw_education(EDUCATION_ORDER[i + 1])
                /\ crs.breakdown.education <= crs_education(EDUCATION_ORDER[i + 1])
        /\ cfg.EDUCATION = EDUCATION_ORDER[1] =>
                (fsw.breakdown.education = 0 /\ crs.breakdown.education = 0)
        /\ cfg.EDUCATION = EDUCATION_ORDER[Len(EDUCATION_ORDER)] =>
                (fsw.breakdown.education = 25 /\ crs.breakdown.education = 150)

\* masters, which ties with the next level (professional_degree) at 23 / 135.
C5_Witness ==
    /\ CrsDone
    /\ cfg.EDUCATION = "masters"
    /\ fsw.breakdown.education = 23
    /\ crs.breakdown.education = 135

\* C6: fsw_age is 12 for ages 18..35, one point less per year from 36 down to
\* 0 at 47, and 0 below 18 and above 47; crs_age is 0 outside 17..47, 110 for
\* 20..29, 0 at 47, non-decreasing from 17 to 20 and non-increasing from 29 to 47.
C6_AgePointTables ==
    CrsDone =>
        LET age == cfg.AGE
        IN  /\ fsw.breakdown.age =
                (IF age \in 18..35 THEN 12 ELSE IF age \in 36..47 THEN 47 - age ELSE 0)
            /\ age \notin 17..47 => crs.breakdown.age = 0
            /\ age \in 20..29 => crs.breakdown.age = 110
            /\ age = 47 => crs.breakdown.age = 0
            /\ age \in 17..19 => crs.breakdown.age <= crs_age(age + 1)
            /\ age \in 29..46 => crs.breakdown.age >= crs_age(age + 1)

\* Age 36, the first step down of both tables.
C6_Witness ==
    /\ CrsDone
    /\ cfg.AGE = 36
    /\ fsw.breakdown.age = 11
    /\ crs.breakdown.age = 72

\* The level is that of the first entry of the ladder (highest threshold first)
\* whose threshold the score meets, and 0 when it meets none.
C7_FirstEntryMet(score, table, level) ==
    \/ /\ level = 0
       /\ \A i \in 1..Len(table) : score < table[i][1]
    \/ \E i \in 1..Len(table) :
        /\ level = table[i][2]
        /\ score >= table[i][1]
        /\ \A j \in 1..(i - 1) : score < table[j][1]

C7_Normalised(scores, table, clb) ==
    /\ DOMAIN clb = Skills
    /\ \A s \in Skills :
        /\ clb[s] \in 0..10
        /\ s \in DOMAIN scores => C7_FirstEntryMet(scores[s], table[s], clb[s])
        /\ s \notin DOMAIN scores => clb[s] = 0

\* C7: ielts_to_clb and tcf_to_nclc return exactly the four skills, each level in
\* 0..10 and equal to the level of the first table entry whose threshold the
\* score meets, 0 when the score is below every threshold or the skill is missing.
C7_ConversionReturnsFirstEntryMet ==
    pc # "convert" =>
        /\ C7_Normalised(cfg.IELTS, IELTS_CLB_TABLE, english_clb_reference)
        /\ C7_Normalised(cfg.TCF, TCF_NCLC_TABLE, french_clb_reference)

\* A mapping with a missing skill, a score on a threshold and one below all.
C7_Witness ==
    /\ pc # "convert"
    /\ DOMAIN cfg.IELTS = {"listening", "reading", "writing"}
    /\ cfg.IELTS.listening = 16
    /\ cfg.IELTS.writing = 7
    /\ english_clb_reference =
        [listening |-> 9, reading |-> 10, writing |-> 0, speaking |-> 0]
    /\ cfg.IELTS.reading = 16

\* C8: with an exam marked not taken, the level set used for the FSW score, the
\* CRS score and every delta is all-zero for the four skills, whatever raw
\* scores the configuration holds for that exam.
C8_ExamNotTakenScoresZero ==
    /\ (pc # "convert" /\ ~cfg.ENGLISH_EXAM_DONE) =>
        /\ english_clb = UniformLevels(0)
        /\ FswDone => fsw.breakdown.language_primary = 0
        /\ CrsDone => (crs.breakdown.english = 0 /\ crs.transfer_total = 0)
        \* The English delta targets level 1 for all four skills, and every
        \* delta's baseline total (new_crs - delta) is the zero-level CRS total
        \* (delta_pnp and delta_canadian_education score theirs without the
        \* factor they add).
        /\ pc = "done" =>
            /\ actions[1].condition.args = <<1, SkillOrder>>
            /\ \A k \in 1..6 :
                actions[k].new_crs - actions[k].delta
                    = crs.total - (IF k = 5 THEN crs.bonus_detail.pnp ELSE 0)
                                - (IF k = 6 THEN crs.bonus_detail.canadian_education ELSE 0)
    /\ (pc # "convert" /\ ~cfg.FRENCH_EXAM_DONE) =>
        /\ french_clb = UniformLevels(0)
        /\ FswDone => fsw.breakdown.language_secondary = 0
        /\ CrsDone => (crs.breakdown.french = 0 /\ crs.bonus_detail.french_bonus = 0)
        /\ pc = "done" => actions[2].condition.args = <<5, SkillOrder>>

\* Neither exam taken, with raw scores that would convert to level 10.
C8_Witness ==
    /\ pc = "done"
    /\ ~cfg.ENGLISH_EXAM_DONE
    /\ ~cfg.FRENCH_EXAM_DONE
    /\ english_clb_reference = UniformLevels(10)
    /\ french_clb_reference = UniformLevels(10)
    /\ crs.breakdown.english = 0

\* The profile with the English factor improved: the skills below minimum + 1
\* raised to it (nothing to raise at level 10).
C9_EnglishImproved ==
    LET lowest == CHOOSE m \in Levels :
                    (\E s \in Skills : english_clb[s] = m) /\ AllAtLeast(english_clb, m)
    IN  [s \in Skills |->
            IF lowest < 10 /\ english_clb[s] < lowest + 1 THEN lowest + 1 ELSE english_clb[s]]

\* The profile with the French factor improved: the skills below the first of
\* 5, 7, 9 that some skill misses raised to it (nothing to raise from 9 on).
C9_FrenchImproved ==
    LET goal == IF ~AllAtLeast(french_clb, 5) THEN 5
                ELSE IF ~AllAtLeast(french_clb, 7) THEN 7
                ELSE IF ~AllAtLeast(french_clb, 9) THEN 9
                ELSE 0
    IN  [s \in Skills |-> IF french_clb[s] < goal THEN goal ELSE french_clb[s]]

C9_EducationImproved ==
    IF cfg.EDUCATION = "phd" THEN cfg.EDUCATION
    ELSE EDUCATION_ORDER[(CHOOSE i \in 1..Len(EDUCATION_ORDER) :
                            EDUCATION_ORDER[i] = cfg.EDUCATION) + 1]

C9_YearsImproved ==
    IF cfg.FOREIGN_WORK_YEARS >= 3 THEN cfg.FOREIGN_WORK_YEARS ELSE cfg.FOREIGN_WORK_YEARS + 1

C9_Hypothetical(english, french, years, education) ==
    compute_crs(english, french, years, cfg.PNP, cfg.CANADIAN_EDUCATION, cfg.JOB_OFFER,
                education).total

C9_DeltaIs(action, hypothetical) ==
    /\ action.new_crs = hypothetical
    /\ action.delta = hypothetical - crs.total

\* C9: for the English, French, education and foreign-work deltas, new_crs is
\* the CRS total of the profile with that one factor improved and nothing else
\* changed, and delta is that total minus the CRS total of the baseline.
C9_DeltaIsHypotheticalMinusBaseline ==
    pc = "done" =>
        /\ C9_DeltaIs(actions[1], C9_Hypothetical(C9_EnglishImproved, french_clb,
                                                  cfg.FOREIGN_WORK_YEARS, cfg.EDUCATION))
        /\ C9_DeltaIs(actions[2], C9_Hypothetical(english_clb, C9_FrenchImproved,
                                                  cfg.FOREIGN_WORK_YEARS, cfg.EDUCATION))
        /\ C9_DeltaIs(actions[3], C9_Hypothetical(english_clb, french_clb,
                                                  cfg.FOREIGN_WORK_YEARS, C9_EducationImproved))
        /\ C9_DeltaIs(actions[4], C9_Hypothetical(english_clb, french_clb,
                                                  C9_YearsImproved, cfg.EDUCATION))

\* A baseline on which all four deltas are positive, with an English skill
\* already above the target.
C9_Witness ==
    /\ pc = "done"
    /\ \A k \in 1..4 : actions[k].delta > 0
    /\ \E s \in Skills : english_clb[s] > actions[1].condition.args[1]

\* C10: for delta_pnp and delta_canadian_education, also on a profile that
\* already holds the nomination or the Canadian education, delta is the CRS
\* total with the factor acquired minus the baseline's CRS total as compute_crs
\* scores it, and new_crs is the total with the factor acquired.
C10_BonusDeltaIsHypotheticalMinusBaseline ==
    pc = "done" =>
        /\ C9_DeltaIs(actions[5],
                compute_crs(english_clb, french_clb, cfg.FOREIGN_WORK_YEARS, TRUE,
                            cfg.CANADIAN_EDUCATION, cfg.JOB_OFFER, None).total)
        /\ C9_DeltaIs(actions[6],
                compute_crs(english_clb, french_clb, cfg.FOREIGN_WORK_YEARS, cfg.PNP,
                            TRUE, cfg.JOB_OFFER, None).total)

C12_EqualArgumentsEqualResults ==
    pc \in {"called_twice", "called_after_assign"} => returned[2] = returned[1]

\* C13: an education value outside the nine levels makes fsw_eligibility,
\* fsw_education, crs_education, compute_crs and next_education_level raise,
\* and a job-offer category other than None, teer00 and teer123 makes the CRS
\* scoring raise instead of scoring it 0.
C13_InvalidEnumsRaise ==
    /\ \A e \in InvalidEducations :
        /\ fsw_eligibility(cfg.AGE, e, english_clb, french_clb,
                           cfg.FOREIGN_WORK_YEARS, cfg.RELATIVE_IN_CANADA).raised
        /\ fsw_education(e).raised
        /\ crs_education(e).raised
        /\ next_education_level(e).raised
        /\ compute_crs(english_clb, french_clb, cfg.FOREIGN_WORK_YEARS, cfg.PNP,
                       cfg.CANADIAN_EDUCATION, cfg.JOB_OFFER, e).raised
    /\ (cfg.EDUCATION \notin EDUCATION_LEVELS /\ pc # "fsw") => pc = "raised" /\ fsw.raised
    /\ (cfg.JOB_OFFER \notin JobOffers /\ CrsDone) => crs.raised

\* C14: the CRS bonus is 600 for a provincial nomination, plus the French
\* bonus (0 unless every French level is 7 or more; then 50 if every English
\* level is 5 or more, else 25), plus 15 for Canadian education, plus the job
\* offer (200 for teer00, 50 for teer123, 0 for none); the four parts are added
\* and the sum is not capped.
C14_BonusIsSumOfFourParts ==
    CrsDone =>
        LET pnp_part == IF cfg.PNP THEN 600 ELSE 0
            french_part ==
                IF \E s \in Skills : french_clb[s] < 7 THEN 0
                ELSE IF \E s \in Skills : english_clb[s] < 5 THEN 25
                ELSE 50
            education_part == IF cfg.CANADIAN_EDUCATION THEN 15 ELSE 0
            offer_part == CASE cfg.JOB_OFFER = "teer00" -> 200
                            [] cfg.JOB_OFFER = "teer123" -> 50
                            [] cfg.JOB_OFFER = None -> 0
        IN  /\ crs.bonus_detail = [pnp |-> pnp_part,
                                   french_bonus |-> french_part,
                                   canadian_education |-> education_part,
                                   job_offer |-> offer_part]
            /\ crs.bonus_total = pnp_part + french_part + education_part + offer_part

\* All four parts at once, with the 25-point French bonus: 600 + 25 + 15 + 200.
C14_Witness ==
    /\ CrsDone
    /\ cfg.PNP /\ cfg.CANADIAN_EDUCATION /\ cfg.JOB_OFFER = "teer00"
    /\ AllAtLeast(french_clb, 7) /\ ~AllAtLeast(english_clb, 5)
    /\ crs.bonus_total = 840

\* A score that is present and at least n.
C15_ScoreAtLeast(x, n) == x # <<>> /\ x[1] >= n

\* C15: evaluate() gives eligible exactly when the six checks are all true and
\* issues lists exactly the failed checks; test is true iff GMAT >= 550 or
\* both GRE scores >= 155; english is true iff the applicant is native, or the
\* exam is taken and every one of the four skill bands is >= 6.0 (so a native
\* applicant has english true whatever else fails).
C15_MbaEvaluate ==
    pc = "evaluated" =>
        LET checks == mba.checks
            labels == {CheckOrder[i] : i \in 1..Len(CheckOrder)}
        IN  /\ DOMAIN checks = labels
            /\ mba.eligible <=> \A label \in labels : checks[label]
            /\ {mba.issues[i] : i \in 1..Len(mba.issues)} = {label \in labels : ~checks[label]}
            /\ Len(mba.issues) = Cardinality({label \in labels : ~checks[label]})
            /\ checks.test <=>
                \/ C15_ScoreAtLeast(config.MBA_GMAT_SCORE, 550)
                \/ C15_ScoreAtLeast(config.MBA_GRE_VERBAL, 155) /\ C15_ScoreAtLeast(config.MBA_GRE_QUANT, 155)
            /\ checks.english <=>
                \/ config.MBA_NATIVE_ENGLISH
                \/ /\ config.ENGLISH_EXAM_DONE
                   /\ \A skill \in Skills :
                        skill \in DOMAIN config.IELTS /\ config.IELTS[skill] >= 12
            /\ config.MBA_NATIVE_ENGLISH => checks.english

\* C16: _apply called with a name that is not real or ideal raises, and leaves
\* every name of the config namespace as it was.
C16_UnknownScenarioRaisesUntouched ==
    [][call' \notin {"real", "ideal"} => returned'.raised /\ config' = config]_vars

\* A selection by an unknown name has failed after a scenario was loaded, and
\* the loaded profile fields are still there.
C16_Witness ==
    /\ pc = "loaded"
    /\ call = "dream"
    /\ returned.raised
    /\ "AGE" \in DOMAIN config
    /\ config.EDUCATION = IDEAL.EDUCATION

\* C20: after a successful _apply, every field of the Scenario schema is
\* defined at module level and equals the value the scenario just applied
\* defines for it; none keeps the value of an earlier scenario.
C20_FieldsAreThoseOfLastScenario ==
    (pc \in {"loaded", "evaluated"} /\ ~returned.raised) =>
        \A field \in ScenarioFields :
            /\ field \in DOMAIN config
            /\ field \in DOMAIN config.SCENARIOS[call]
            /\ config[field] = config.SCENARIOS[call][field]

\* C17: a saturated factor gives delta 0 with new_crs equal to the current CRS
\* total: English with every skill at 10, French with its minimum at 9 or
\* more, education at phd, foreign work at 3 years or more.
C17_SaturatedFactorsGiveZero ==
    pc = "done" =>
        /\ (\A s \in Skills : english_clb[s] = 10) =>
                actions[1].delta = 0 /\ actions[1].new_crs = crs.total
        /\ (\A s \in Skills : french_clb[s] >= 9) =>
                actions[2].delta = 0 /\ actions[2].new_crs = crs.total
        /\ cfg.EDUCATION = "phd" =>
                actions[3].delta = 0 /\ actions[3].new_crs = crs.total
        /\ cfg.FOREIGN_WORK_YEARS >= 3 =>
                actions[4].delta = 0 /\ actions[4].new_crs = crs.total

\* English, education and foreign work saturated at once, French not.
C17_Witness ==
    /\ pc = "done"
    /\ \A s \in Skills : english_clb[s] = 10
    /\ cfg.EDUCATION = "phd"
    /\ cfg.FOREIGN_WORK_YEARS > 3
    /\ actions[1].delta = 0 /\ actions[3].delta = 0 /\ actions[4].delta = 0
    /\ actions[2].delta > 0

\* The lowest level of a level set.
LowestLevel(clb) == CHOOSE m \in Levels : (\E s \in Skills : clb[s] = m) /\ (\A s \in Skills : clb[s] >= m)

\* seq lists exactly the members of set, each once.
ListsExactly(seq, set) ==
    /\ {seq[i] : i \in 1..Len(seq)} = set
    /\ Len(seq) = Cardinality(set)

\* C18: next_relevant_french_target returns the first of 5, 7, 9 that is
\* strictly greater than the minimum level, with exactly the skills below it,
\* and (None, []) once the minimum is 9 or more; delta_french_next_clb reports
\* that target and those skills.
C18_FrenchTargetIsFirstThresholdAbove ==
    LET lowest == LowestLevel(french_clb)
        above == {t \in {5, 7, 9} : t > lowest}
        result == next_relevant_french_target(french_clb)
    IN  /\ above = {} <=> lowest >= 9
        /\ IF above = {}
            THEN /\ result = [target |-> <<>>, skills |-> <<>>]
                 /\ pc = "done" => actions[2].condition.text = "French already at max NCLC 10."
            ELSE LET first == CHOOSE t \in above : \A u \in above : t <= u
                 IN  /\ result.target = <<first>>
                     /\ ListsExactly(result.skills, {s \in Skills : french_clb[s] < first})
                     /\ pc = "done" => actions[2].condition.args = <<first, result.skills>>

\* The minimum sits exactly on the threshold 7, so the target is 9, and one
\* skill is already at 9.
C18_Witness ==
    /\ pc = "done"
    /\ LowestLevel(french_clb) = 7
    /\ \E s \in Skills : french_clb[s] >= 9
    /\ actions[2].condition.args[1] = 9
    /\ Len(actions[2].condition.args[2]) < 4

\* C19: next_clb_target returns the minimum level + 1, capped at 10, with the
\* non-empty list of exactly the skills below that target, or an empty list
\* when the minimum is 10; the boosted set of delta_english_next_clb has the
\* skills below the target at the target and every other skill unchanged.
C19_NextClbTargetAndBoost ==
    LET lowest == LowestLevel(english_clb)
        result == next_clb_target(english_clb, 10)
    IN  IF lowest = 10
            THEN /\ result.skills = <<>>
                 /\ pc = "done" => actions[1].condition.text = "English already at max CLB 10."
            ELSE LET boosted == Boosted(english_clb, result.target)
                     raised_only == [s \in Skills |-> IF english_clb[s] < lowest + 1
                                                         THEN lowest + 1 ELSE english_clb[s]]
                 IN  /\ result.target = lowest + 1
                     /\ result.target <= 10
                     /\ result.skills # <<>>
                     /\ ListsExactly(result.skills, {s \in Skills : english_clb[s] < result.target})
                     /\ boosted = raised_only
                     /\ \A s \in Skills : boosted[s] >= english_clb[s]
                     /\ pc = "done" =>
                            /\ actions[1].condition.args = <<lowest + 1, result.skills>>
                            /\ actions[1].new_crs =
                                compute_crs(raised_only, french_clb, cfg.FOREIGN_WORK_YEARS,
                                            cfg.PNP, cfg.CANADIAN_EDUCATION, cfg.JOB_OFFER,
                                            None).total

\* The minimum is 9, so the cap is reached: target 10 for the skills at 9,
\* with another skill already at 10.
C19_Witness ==
    /\ pc = "done"
    /\ LowestLevel(english_clb) = 9
    /\ \E s \in Skills : english_clb[s] = 10
    /\ actions[1].condition.args[1] = 10
    /\ Len(actions[1].condition.args[2]) < 4

\* The CRS total of the profile of the state with the given level sets, years
\* and education.
C21_Total(english, french, years, education) ==
    compute_crs(english, french, years, cfg.PNP, cfg.CANADIAN_EDUCATION,
                cfg.JOB_OFFER, education).total

\* C21: no hypothetical improvement lowers the score.  Each of the six delta
\* functions returns delta >= 0, and the CRS total does not go down when one
\* English skill or one French skill goes up a level, when the education goes
\* to the next level or when a year of foreign work is added.
C21_NoImprovementLowersTheScore ==
    pc = "done" =>
        /\ \A k \in 1..Len(actions) : actions[k].delta >= 0
        /\ \A s \in Skills :
            english_clb[s] < 10 =>
                C21_Total([english_clb EXCEPT ![s] = @ + 1], french_clb,
                          cfg.FOREIGN_WORK_YEARS, cfg.EDUCATION) >= crs.total
        /\ \A s \in Skills :
            french_clb[s] < 10 =>
                C21_Total(english_clb, [french_clb EXCEPT ![s] = @ + 1],
                          cfg.FOREIGN_WORK_YEARS, cfg.EDUCATION) >= crs.total
        /\ next_education_level(cfg.EDUCATION) # None =>
                C21_Total(english_clb, french_clb, cfg.FOREIGN_WORK_YEARS,
                          next_education_level(cfg.EDUCATION)) >= crs.total
        /\ C21_Total(english_clb, french_clb, cfg.FOREIGN_WORK_YEARS + 1,
                     cfg.EDUCATION) >= crs.total

\* A profile where every one of the six improvements gains points.
C21_Witness ==
    /\ pc = "done"
    /\ \A k \in 1..Len(actions) : actions[k].delta > 0
    /\ \A s \in Skills : french_clb[s] = 7

====
